---------------------------- MODULE Spec2Model ----------------------------
(***************************************************************************)
(* A model of src/src/index.ts of github-action-random-proverb: the        *)
(* resolution of partial configurations (buildConfigOptions), the          *)
(* locate-then-create-or-update protocol (getCommentId, replaceComment,    *)
(* processComment) and the concurrent batch orchestration                  *)
(* (executeOperation, getOperationResult, run) on the JavaScript event     *)
(* loop.                                                                   *)
(***************************************************************************)
EXTENDS Integers, Sequences, FiniteSets, TLC

(***************************************************************************)
(* Bounds of the model.                                                    *)
(***************************************************************************)
\* Longest batch read from the source file.
MaxBatch == 2

(***************************************************************************)
(* JavaScript values.  A value is undefined, a number or a string.         *)
(* Strings that may reach toInt are sequences of characters, so that       *)
(* formatting a number and parsing it back are computed, not assumed.      *)
(***************************************************************************)
Undef == [t |-> "undef", n |-> 0, s |-> <<>>]
Num(k) == [t |-> "num", n |-> k, s |-> <<>>]
Str(cs) == [t |-> "str", n |-> 0, s |-> cs]

\* Theme and layout values: undefined or a string.
NoText == [t |-> "undef", v |-> ""]
Text(x) == [t |-> "str", v |-> x]

Digits == <<"0", "1", "2", "3", "4", "5", "6", "7", "8", "9">>

IsDigit(c) == \E d \in 1..10 : Digits[d] = c

DigitVal(c) == (CHOOSE d \in 1..10 : Digits[d] = c) - 1

\* The decimal digits of a natural number, as `${n}` prints them.
RECURSIVE NatToStr(_)
NatToStr(k) ==
    IF k < 10 THEN <<Digits[k + 1]>>
    ELSE NatToStr(k \div 10) \o <<Digits[(k % 10) + 1]>>

\* The template literal `${requestId}` of line 84.
TemplateStr(v) ==
    IF v.t = "str" THEN v.s
    ELSE IF v.t = "num"
         THEN (IF v.n < 0 THEN <<"-">> \o NatToStr(-v.n) ELSE NatToStr(v.n))
         ELSE <<"u", "n", "d", "e", "f", "i", "n", "e", "d">>

\* The template literal `${theme}` of line 58.
TemplateText(v) == IF v.t = "str" THEN v.v ELSE "undefined"

\* What JavaScript's || and ?: take for true.
Truthy(v) ==
    CASE v.t = "undef" -> FALSE
      [] v.t = "num" -> v.n # 0
      [] OTHER -> v.s # <<>>

TruthyText(v) == v.t = "str" /\ v.v # ""

\* a || b
OrElse(a, b) == IF Truthy(a) THEN a ELSE b

OrElseText(a, b) == IF TruthyText(a) THEN a ELSE b

(***************************************************************************)
(* Helpers imported by index.ts from ./utils, which are not part of the    *)
(* sources at hand.                                                        *)
(***************************************************************************)
\* ./utils/validators: isNullOrUndefined.
isNullOrUndefined(v) == v.t = "undef"

RECURSIVE DigitsValue(_)
DigitsValue(cs) ==
    IF cs = <<>> THEN 0
    ELSE 10 * DigitsValue(SubSeq(cs, 1, Len(cs) - 1)) + DigitVal(cs[Len(cs)])

AllDigits(cs) == cs # <<>> /\ \A k \in 1..Len(cs) : IsDigit(cs[k])

\* Whether a string denotes a base-10 integer.
IsIntStr(cs) ==
    IF cs # <<>> /\ cs[1] = "-" THEN AllDigits(Tail(cs)) ELSE AllDigits(cs)

\* ./utils/commons: toInt, the coercion to a base-10 integer; the result
\* is the integer, or the failure ValueError when the string denotes none.
toInt(cs) ==
    IF ~IsIntStr(cs) THEN [ok |-> FALSE, n |-> 0]
    ELSE IF cs[1] = "-" THEN [ok |-> TRUE, n |-> 0 - DigitsValue(Tail(cs))]
    ELSE [ok |-> TRUE, n |-> DigitsValue(cs)]

\* ./utils/profiles: profile.requestOptions.url, the rendering endpoint.
profileUrl == "<endpoint>"

(***************************************************************************)
(* buildConfigOptions (lines 71-92).                                       *)
(*   opt : the partial configuration, [hasStyle, theme, layout,            *)
(*         hasResource, requestId, hasRepo, repoOptions];                  *)
(*   inp : the single-run inputs read by getProperty, [theme, layout,      *)
(*         requestId], each a string, empty when the input is not given;   *)
(*   ctx : github.context, [sha, repo, prNumber].                          *)
(* The result is the ConfigOptions, or the thrown ValueError.              *)
(***************************************************************************)
\* options.styleOptions?.theme
PartialTheme(opt) == IF opt.hasStyle THEN opt.theme ELSE NoText

\* options.styleOptions?.layout
PartialLayout(opt) == IF opt.hasStyle THEN opt.layout ELSE NoText

\* options.resourceOptions?.requestId
PartialRequestId(opt) == IF opt.hasResource THEN opt.requestId ELSE Undef

\* Line 72.
ResolveTheme(opt, inp) == OrElseText(PartialTheme(opt), Text(inp.theme))

\* Line 73.
ResolveLayout(opt, inp) == OrElseText(PartialLayout(opt), Text(inp.layout))

\* A resolver that prefers the single-run input to the batch entry.
ResolveRequestIdInputFirst(opt, inp, ctx) ==
    OrElse(Str(inp.requestId), OrElse(PartialRequestId(opt), ctx.prNumber))

\* Lines 74-77.
ResolveRequestId(opt, inp, ctx) ==
    OrElse(PartialRequestId(opt), OrElse(Str(inp.requestId), ctx.prNumber))

\* A resolver that lets the batch entry name the repository.
ResolveRepoFromPartial(opt, ctx) == IF opt.hasRepo THEN opt.repoOptions ELSE ctx.repo

\* Line 85.
ResolveRepo(opt, ctx) == ctx.repo

NoRepo == [owner |-> "", repo |-> ""]

Thrown(kind) ==
    [ok |-> FALSE, error |-> kind,
     styleOptions |-> [theme |-> NoText, layout |-> NoText],
     resourceOptions |-> [requestId |-> 0],
     repoOptions |-> NoRepo]

buildConfigOptions(opt, inp, ctx) ==
    LET theme == ResolveTheme(opt, inp)
        layout == ResolveLayout(opt, inp)
        requestId == ResolveRequestId(opt, inp, ctx)
    IN  IF isNullOrUndefined(requestId) THEN Thrown("ValueError")
        ELSE LET parsed == toInt(TemplateStr(requestId))
             IN  IF ~parsed.ok THEN Thrown("ValueError")
                 ELSE [ok |-> TRUE, error |-> "",
                       styleOptions |-> [theme |-> theme, layout |-> layout],
                       resourceOptions |-> [requestId |-> parsed.n],
                       repoOptions |-> ResolveRepo(opt, ctx)]


(***************************************************************************)
(* The state.                                                              *)
(***************************************************************************)
VARIABLES
    sourceData,   \* what getProperty('sourceData') names: "none", "file", "badfile"
    fileEntries,  \* the partial configurations the source file holds
    inputs,       \* the single-run inputs theme, layout, requestId
    context,      \* github.context: sha, repo, pull-request number
    hostPlan,     \* per pipeline, how the host answers: "ok", "listFail", "pubFail",
                  \* or never: "listStall", "pubStall"
    threads,      \* the host's comments, per issue number
    threads0,     \* the host's comments before the first run
    nextId,       \* the identifier the host gives the next comment
    phase,        \* run: "start", "launching", "waiting", "succeeded", "failed"
    params,       \* the partial configurations handed to executeOperation
    next,         \* the index the for loop of executeOperation is at
    pc,           \* per pipeline: "new", "listing", "publishing", "done", "failed"
    cfg,          \* per pipeline, the ConfigOptions built
    message,      \* per pipeline, the comment body built by processComment
    listed,       \* per pipeline, the listComments response, once received
    located,      \* per pipeline, what getCommentId returned
    error,        \* per pipeline, what it threw
    calls,        \* the host calls issued so far in this run, in order
    failOrder,    \* the pipelines that failed in this run, in order of time
    reported,     \* the errors handed to core.setFailed in this run
    run,          \* which run of the action this is: 1, or 2 after Rerun
    firstRun,     \* per pipeline, whether it published in the first run
    rOpt,         \* a partial configuration handed to buildConfigOptions alone
    rOut          \* what buildConfigOptions returned for it

hostVars == <<hostPlan, threads, threads0, nextId>>
inputVars == <<sourceData, fileEntries, inputs, context>>
runVars == <<phase, params, next, pc, cfg, message, listed, located, error,
             calls, failOrder, reported>>
resolveVars == <<rOpt, rOut>>
vars == <<hostVars, inputVars, runVars, run, firstRun, resolveVars>>

(***************************************************************************)
(* The environment: inputs, ambient context and host.                      *)
(***************************************************************************)
BotLogin == "github-actions[bot]"

\* The repository of the run, github.context.repo.
AmbientRepo == [owner |-> "o", repo |-> "r"]

OtherRepo == [owner |-> "evil", repo |-> "other"]

\* The issues and pull requests that exist in the repository.
Issues == {1, 2}

Shas == {"abc123", "def456"}

EmptyPartial ==
    [hasStyle |-> FALSE, theme |-> NoText, layout |-> NoText,
     hasResource |-> FALSE, requestId |-> Undef,
     hasRepo |-> FALSE, repoOptions |-> NoRepo]

WithRequestId(p, v) == [p EXCEPT !.hasResource = TRUE, !.requestId = v]

WithStyle(p, th, la) == [p EXCEPT !.hasStyle = TRUE, !.theme = th, !.layout = la]

WithRepo(p, r) == [p EXCEPT !.hasRepo = TRUE, !.repoOptions = r]

\* The batch entries the runs are tried on.
PartialSamples ==
    { EmptyPartial,
      WithRequestId(EmptyPartial, Num(1)),
      WithStyle(WithRequestId(EmptyPartial, Num(2)),
                Text("nightOwl"), Text("churchill")),
      WithRepo(WithStyle(WithRequestId(EmptyPartial, Str(<<"1">>)),
                         Text(""), NoText), OtherRepo),
      WithRequestId(EmptyPartial, Str(<<"x">>)),
      WithRequestId(EmptyPartial, Num(-1)) }

Batches == UNION { [1..n -> PartialSamples] : n \in 0..MaxBatch }

RunInputs ==
    { [theme |-> "light", layout |-> "classic", requestId |-> r] :
        r \in {<<>>, <<"2">>} }

Contexts ==
    { [sha |-> "abc123", repo |-> AmbientRepo, prNumber |-> p] :
        p \in {Undef, Num(1)} }

Plans == {"ok", "listFail", "pubFail"}

\* The comment threads an issue may hold before the first run, by author.
ThreadShapes ==
    { <<>>,
      <<"alice", BotLogin, BotLogin>>,
      <<BotLogin, "alice">> }

\* The comments of a thread of the given authors, numbered from base + 1.
ThreadOf(shape, base) ==
    [k \in 1..Len(shape) |->
        [id |-> base + k, login |-> shape[k], body |-> "old"]]

\* Every issue starts with a thread of the same shape, its comments
\* numbered apart from the other issues'.
InitialThreads ==
    { [r \in Issues |-> ThreadOf(shape, (r - 1) * Len(shape))] :
        shape \in ThreadShapes }

RECURSIVE SumLen(_, _)
SumLen(f, S) ==
    IF S = {} THEN 0
    ELSE LET r == CHOOSE x \in S : TRUE
         IN  Len(f[r]) + SumLen(f, S \ {r})

(***************************************************************************)
(* getOperationResult (lines 110-114): the batch expansion.                *)
(***************************************************************************)
\* The sequence handed to executeOperation; for "badfile" getConfigOptions
\* throws and nothing is handed over.
ExpandBatch(src, entries) == IF src = "file" THEN entries ELSE <<EmptyPartial>>

\* isValidFile(sourceData, '.json') of ./utils/files: the source names an
\* existing file with the recognized extension.
isValidFile(src) == src \in {"file", "badfile"}

\* getConfigOptions of ./utils/files: the parsed sequence, or ConfigError
\* thrown when the file does not parse as a sequence of partial configs.
getConfigOptions(src, entries) ==
    IF src = "badfile" THEN [ok |-> FALSE, ps |-> <<>>]
    ELSE [ok |-> TRUE, ps |-> entries]

\* An expansion that takes a file it cannot parse for no file at all.
ExpansionResultLenient(src, entries) ==
    [ok |-> TRUE, ps |-> ExpandBatch(src, entries)]

\* An expansion without the single empty partial config for a source that
\* is no file.
ExpansionResultNoDefault(src, entries) ==
    IF isValidFile(src) THEN getConfigOptions(src, entries)
    ELSE [ok |-> TRUE, ps |-> <<>>]

\* Line 111 as a whole: the sequence handed to executeOperation, or the
\* error thrown by getConfigOptions before executeOperation is called.
ExpansionResult(src, entries) ==
    IF isValidFile(src) THEN getConfigOptions(src, entries)
    ELSE [ok |-> TRUE, ps |-> <<EmptyPartial>>]

NotBuilt == Thrown("none")

NoError == [kind |-> "", by |-> 0]

(***************************************************************************)
(* processComment (lines 54-69): the body of the comment.                  *)
(***************************************************************************)
\* Line 58.
CommentText(styleOptions) ==
    "![Styled Proverbs](" \o profileUrl \o "?theme="
        \o TemplateText(styleOptions.theme) \o "&layout="
        \o TemplateText(styleOptions.layout) \o ")"

\* Line 59.
Footer(ctx) == "Triggered by commit: " \o ctx.sha

\* A body joined by a single line break.
BuildMessageOneBreak(styleOptions, ctx) ==
    CommentText(styleOptions) \o "\n" \o Footer(ctx)

\* Line 61: [commentText, footer].join('\n\n')
BuildMessage(styleOptions, ctx) ==
    CommentText(styleOptions) \o "\n\n" \o Footer(ctx)

(***************************************************************************)
(* getCommentId (lines 20-38), after the listComments response.            *)
(***************************************************************************)
\* A filter that lets the comments of every author through.
IsAnyComment(comment) == comment.login = comment.login

\* Line 31.
IsBotComment(comment) == comment.login = BotLogin

\* A locator that takes the last bot comment instead of the first.
PickCommentIdLast(comments) ==
    LET res == SelectSeq(comments, IsBotComment)
    IN  IF Len(res) > 0 THEN Num(res[Len(res)].id) ELSE Undef

\* Lines 31-37: the first comment of the filtered list, or undefined.
PickCommentId(comments) ==
    LET res == SelectSeq(comments, IsBotComment)
    IN  IF Len(res) > 0 THEN Num(res[1].id) ELSE Undef

\* Lines 26-29: the listComments call.
ListCall(i, options) ==
    [by |-> i, op |-> "listComments",
     owner |-> options.repoOptions.owner, repo |-> options.repoOptions.repo,
     issue_number |-> options.resourceOptions.requestId,
     comment_id |-> 0, body |-> ""]

(***************************************************************************)
(* replaceComment (lines 40-52), after getCommentId returned.              *)
(***************************************************************************)
\* A publisher that creates a comment whatever the locator returned.
PublishCallAlwaysCreate(i, options, body, commentId) ==
    [by |-> i, op |-> "createComment",
     owner |-> options.repoOptions.owner, repo |-> options.repoOptions.repo,
     issue_number |-> options.resourceOptions.requestId,
     comment_id |-> 0, body |-> body]

\* A publisher with the branches of the conditional exchanged.
PublishCallExchanged(i, options, body, commentId) ==
    IF ~Truthy(commentId)
    THEN [by |-> i, op |-> "updateComment",
          owner |-> options.repoOptions.owner, repo |-> options.repoOptions.repo,
          issue_number |-> 0, comment_id |-> commentId.n, body |-> body]
    ELSE [by |-> i, op |-> "createComment",
          owner |-> options.repoOptions.owner, repo |-> options.repoOptions.repo,
          issue_number |-> options.resourceOptions.requestId,
          comment_id |-> 0, body |-> body]

\* Lines 49-51: the call chosen by commentId ? updateComment : createComment.
PublishCall(i, options, body, commentId) ==
    IF Truthy(commentId)
    THEN [by |-> i, op |-> "updateComment",
          owner |-> options.repoOptions.owner, repo |-> options.repoOptions.repo,
          issue_number |-> 0, comment_id |-> commentId.n, body |-> body]
    ELSE [by |-> i, op |-> "createComment",
          owner |-> options.repoOptions.owner, repo |-> options.repoOptions.repo,
          issue_number |-> options.resourceOptions.requestId,
          comment_id |-> 0, body |-> body]

(***************************************************************************)
(* executeOperation (lines 100-108) and run (lines 122-128).               *)
(***************************************************************************)
Pipelines == 1..Len(params)

Settled(pcs, i) == pcs[i] \in {"done", "failed"}

\* A combinator that settles as soon as one promise is fulfilled.
PromiseAny(pcs) ==
    IF \E i \in DOMAIN pcs : pcs[i] = "failed" THEN "rejected"
    ELSE IF \E i \in DOMAIN pcs : pcs[i] = "done" THEN "fulfilled"
    ELSE "pending"

\* The state of Promise.all(promises), from the states of the promises.
PromiseAll(pcs) ==
    IF \E i \in DOMAIN pcs : pcs[i] = "failed" THEN "rejected"
    ELSE IF \A i \in DOMAIN pcs : pcs[i] = "done" THEN "fulfilled"
    ELSE "pending"

\* Of the promises already rejected, the one of highest index.
LastRejected(pcs) ==
    CHOOSE i \in DOMAIN pcs :
        pcs[i] = "failed" /\ \A j \in DOMAIN pcs : j > i => pcs[j] # "failed"

\* Promise.all subscribes to the promises in index order: of those already
\* rejected when it is called, the one of lowest index rejects it.
FirstRejected(pcs) ==
    CHOOSE i \in DOMAIN pcs :
        pcs[i] = "failed" /\ \A j \in DOMAIN pcs : j < i => pcs[j] # "failed"

\* An event loop that handles responses between two turns of the for loop,
\* as it would if getOperationStatus were awaited inside the loop.
EventLoopRunsWhileLaunching(ph) ==
    ph \in {"launching", "waiting", "failed", "succeeded"}

\* A process that ends as soon as run has reported a failure.
EventLoopStopsOnFailure(ph) == ph = "waiting"

\* Whether responses are still handled: run returns without ending the
\* process (lines 122-128), so calls in flight are answered after it too.
EventLoopRuns(ph) == ph \in {"waiting", "failed", "succeeded"}

\* What run does when the promise it awaits settles: the catch of line 125
\* hands the error to core.setFailed.
PhaseAfter(ph, pcs) ==
    IF ph # "waiting" THEN ph
    ELSE CASE PromiseAll(pcs) = "rejected" -> "failed"
           [] PromiseAll(pcs) = "fulfilled" -> "succeeded"
           [] OTHER -> "waiting"

ReportedAfter(ph, pcs, errs, i, rep) ==
    IF ph = "waiting" /\ PromiseAll(pcs) = "rejected"
    THEN Append(rep, errs[i])
    ELSE rep

(***************************************************************************)
(* The host.                                                               *)
(***************************************************************************)
\* Whether the host answers a call on this repository and issue at all.
HostKnows(call) ==
    /\ call.owner = AmbientRepo.owner /\ call.repo = AmbientRepo.repo
    /\ call.op # "updateComment" => call.issue_number \in Issues

\* The thread after the host created a comment for the action's token.
HostCreate(th, call, id) ==
    [th EXCEPT ![call.issue_number] =
        Append(@, [id |-> id, login |-> BotLogin, body |-> call.body])]

\* The threads after the host changed the body of a comment.
HostUpdate(th, call) ==
    [r \in DOMAIN th |->
        [k \in 1..Len(th[r]) |->
            IF th[r][k].id = call.comment_id
            THEN [th[r][k] EXCEPT !.body = call.body]
            ELSE th[r][k]]]

LastCallBy(i) ==
    LET ks == {k \in 1..Len(calls) : calls[k].by = i}
    IN  calls[CHOOSE k \in ks : \A m \in ks : m <= k]

(***************************************************************************)
(* Initial states.                                                         *)
(***************************************************************************)
FreshRun ==
    /\ phase = "start"
    /\ params = <<>>
    /\ next = 1
    /\ pc = <<>>
    /\ cfg = <<>>
    /\ message = <<>>
    /\ listed = <<>>
    /\ located = <<>>
    /\ error = <<>>
    /\ calls = <<>>
    /\ failOrder = <<>>
    /\ reported = <<>>

ResolveIdle ==
    /\ rOpt = EmptyPartial
    /\ rOut = [done |-> FALSE, res |-> NotBuilt]

Init ==
    /\ sourceData \in {"none", "file", "badfile"}
    /\ fileEntries \in (IF sourceData = "file" THEN Batches ELSE {<<>>})
    /\ inputs \in RunInputs
    /\ context \in Contexts
    /\ hostPlan \in
         [1..(IF sourceData = "badfile" THEN 0
              ELSE Len(ExpandBatch(sourceData, fileEntries))) -> Plans]
    /\ threads \in InitialThreads
    /\ threads0 = threads
    /\ nextId = SumLen(threads, Issues) + 1
    /\ run = 1
    /\ firstRun = <<>>
    /\ FreshRun
    /\ ResolveIdle

(***************************************************************************)
(* Actions.  Each is one turn of the event loop: JavaScript runs a         *)
(* callback and the microtasks it queues to completion before the next     *)
(* response is handled.                                                    *)
(***************************************************************************)
\* runCommentOperation and getOperationResult (lines 110-120), up to the
\* call of executeOperation; when getConfigOptions throws, run catches it.
GetOperationResult ==
    /\ phase = "start"
    /\ IF ~ExpansionResult(sourceData, fileEntries).ok
       THEN /\ phase' = "failed"
            /\ reported' = Append(reported, [kind |-> "ConfigError", by |-> 0])
            /\ UNCHANGED <<params, pc, cfg, message, listed, located, error>>
       ELSE LET ps == ExpansionResult(sourceData, fileEntries).ps
            IN  /\ phase' = "launching"
                /\ params' = ps
                /\ pc' = [i \in 1..Len(ps) |-> "new"]
                /\ cfg' = [i \in 1..Len(ps) |-> NotBuilt]
                /\ message' = [i \in 1..Len(ps) |-> ""]
                /\ listed' = [i \in 1..Len(ps) |-> [got |-> FALSE, data |-> <<>>]]
                /\ located' = [i \in 1..Len(ps) |-> Undef]
                /\ error' = [i \in 1..Len(ps) |-> NoError]
                /\ UNCHANGED reported
    /\ UNCHANGED <<next, calls, failOrder>>
    /\ UNCHANGED <<hostVars, inputVars, run, firstRun, resolveVars>>

\* One turn of the for loop of executeOperation (lines 103-105):
\* getOperationStatus(option) runs synchronously up to its first await, the
\* listComments call of getCommentId, or to the throw of buildConfigOptions,
\* which rejects the promise pushed.
Launch ==
    /\ phase = "launching"
    /\ next <= Len(params)
    /\ LET i == next
           options == buildConfigOptions(params[i], inputs, context)
       IN  IF options.ok
           THEN /\ cfg' = [cfg EXCEPT ![i] = options]
                /\ message' = [message EXCEPT
                                 ![i] = BuildMessage(options.styleOptions, context)]
                /\ calls' = Append(calls, ListCall(i, options))
                /\ pc' = [pc EXCEPT ![i] = "listing"]
                /\ UNCHANGED <<error, failOrder>>
           ELSE /\ pc' = [pc EXCEPT ![i] = "failed"]
                /\ error' = [error EXCEPT ![i] = [kind |-> options.error, by |-> i]]
                /\ failOrder' = Append(failOrder, i)
                /\ UNCHANGED <<cfg, message, calls>>
    /\ next' = next + 1
    /\ UNCHANGED <<phase, params, listed, located, reported>>
    /\ UNCHANGED <<hostVars, inputVars, run, firstRun, resolveVars>>

\* await Promise.all(promises) (line 107), reached when the loop is over,
\* and what follows in the same turn: a promise already rejected rejects it
\* and run's catch reports; no promise at all fulfils it.
AwaitAll ==
    /\ phase = "launching"
    /\ next > Len(params)
    /\ phase' = PhaseAfter("waiting", pc)
    /\ reported' =
         IF PromiseAll(pc) = "rejected"
         THEN ReportedAfter("waiting", pc, error, FirstRejected(pc), reported)
         ELSE reported
    /\ UNCHANGED <<params, next, pc, cfg, message, listed, located, error,
                   calls, failOrder>>
    /\ UNCHANGED <<hostVars, inputVars, run, firstRun, resolveVars>>

\* A catch that logs the host error and lets the pipeline end normally.
RejectSwallowed(i) ==
    /\ pc' = [pc EXCEPT ![i] = "done"]
    /\ phase' = PhaseAfter(phase, pc')
    /\ UNCHANGED <<error, failOrder, reported>>

\* Pipeline i fails with a host error: processComment rethrows (line 67),
\* getOperationStatus rejects, and Promise.all, if still pending, rejects.
Reject(i) ==
    LET pcs == [pc EXCEPT ![i] = "failed"]
        errs == [error EXCEPT ![i] = [kind |-> "HostApiError", by |-> i]]
    IN  /\ pc' = pcs
        /\ error' = errs
        /\ failOrder' = Append(failOrder, i)
        /\ phase' = PhaseAfter(phase, pcs)
        /\ reported' = ReportedAfter(phase, pcs, errs, i, reported)

\* The listComments response of pipeline i arrives (line 26), unless the
\* host never answers; on success getCommentId returns and replaceComment
\* issues its call (lines 47-51).
ListResponse(i) ==
    /\ EventLoopRuns(phase)
    /\ i \in Pipelines
    /\ pc[i] = "listing"
    /\ hostPlan[i] # "listStall"
    /\ IF hostPlan[i] # "listFail" /\ HostKnows(LastCallBy(i))
       THEN LET comments == threads[LastCallBy(i).issue_number]
                commentId == PickCommentId(comments)
            IN  /\ listed' = [listed EXCEPT ![i] = [got |-> TRUE, data |-> comments]]
                /\ located' = [located EXCEPT ![i] = commentId]
                /\ calls' = Append(calls,
                                   PublishCall(i, cfg[i], message[i], commentId))
                /\ pc' = [pc EXCEPT ![i] = "publishing"]
                /\ UNCHANGED <<phase, error, failOrder, reported>>
       ELSE /\ Reject(i)
            /\ UNCHANGED <<listed, located, calls>>
    /\ UNCHANGED <<params, next, cfg, message>>
    /\ UNCHANGED <<hostVars, inputVars, run, firstRun, resolveVars>>

\* The createComment or updateComment response of pipeline i arrives
\* (line 49), unless the host never answers: the host has applied the
\* call, or has failed it.
PublishResponse(i) ==
    /\ EventLoopRuns(phase)
    /\ i \in Pipelines
    /\ pc[i] = "publishing"
    /\ hostPlan[i] # "pubStall"
    /\ LET call == LastCallBy(i)
       IN  IF hostPlan[i] # "pubFail" /\ HostKnows(call)
           THEN /\ IF call.op = "createComment"
                   THEN /\ threads' = HostCreate(threads, call, nextId)
                        /\ nextId' = nextId + 1
                   ELSE /\ threads' = HostUpdate(threads, call)
                        /\ nextId' = nextId
                /\ pc' = [pc EXCEPT ![i] = "done"]
                /\ phase' = PhaseAfter(phase, pc')
                /\ UNCHANGED <<error, failOrder, reported>>
           ELSE /\ Reject(i)
                /\ UNCHANGED <<threads, nextId>>
    /\ UNCHANGED <<params, next, cfg, message, listed, located, calls>>
    /\ UNCHANGED <<hostPlan, threads0, inputVars, run, firstRun, resolveVars>>

\* The process has ended (run has returned and no call is in flight) and
\* the action is run again with the same inputs, on a later commit or the
\* same one.
Rerun ==
    /\ phase \in {"succeeded", "failed"}
    /\ \A i \in Pipelines : Settled(pc, i)
    /\ run = 1
    /\ run' = 2
    /\ firstRun' = [i \in Pipelines |-> pc[i] = "done"]
    /\ \E sha \in Shas : context' = [context EXCEPT !.sha = sha]
    /\ phase' = "start"
    /\ params' = <<>>
    /\ next' = 1
    /\ pc' = <<>>
    /\ cfg' = <<>>
    /\ message' = <<>>
    /\ listed' = <<>>
    /\ located' = <<>>
    /\ error' = <<>>
    /\ calls' = <<>>
    /\ failOrder' = <<>>
    /\ reported' = <<>>
    /\ UNCHANGED <<hostVars, sourceData, fileEntries, inputs, resolveVars>>

Next ==
    \/ GetOperationResult
    \/ Launch
    \/ AwaitAll
    \/ \E i \in 1..MaxBatch : ListResponse(i)
    \/ \E i \in 1..MaxBatch : PublishResponse(i)
    \/ Rerun

Spec == Init /\ [][Next]_vars

(***************************************************************************)
(* buildConfigOptions on its own, over a wider set of inputs.              *)
(***************************************************************************)
RequestIdValues ==
    { Undef, Num(0 - 1), Num(0), Num(1), Num(2), Num(12),
      Str(<<>>), Str(<<"0">>), Str(<<"2">>), Str(<<"-", "1">>),
      Str(<<"1", "0">>), Str(<<"x">>), Str(<<"1", ".", "5">>) }

RequestIdInputs == { <<>>, <<"0">>, <<"3">>, <<"1", "0">>, <<"x">>, <<"-", "3">> }

StyleValues == { NoText, Text(""), Text("nightOwl") }

StyleInputs == { "", "light" }

ResolvePartials ==
    { [hasStyle |-> hs, theme |-> th, layout |-> la,
       hasResource |-> hr, requestId |-> rid,
       hasRepo |-> hp, repoOptions |-> rp] :
        hs \in BOOLEAN, th \in StyleValues, la \in StyleValues,
        hr \in BOOLEAN, rid \in RequestIdValues,
        hp \in BOOLEAN, rp \in {NoRepo, OtherRepo} }

\* A partial configuration as parsed from JSON: a section that is absent
\* holds nothing.
WellFormedPartial(p) ==
    /\ ~p.hasStyle => p.theme = NoText /\ p.layout = NoText
    /\ ~p.hasResource => p.requestId = Undef
    /\ p.hasRepo <=> p.repoOptions # NoRepo

InitResolve ==
    /\ rOpt \in {p \in ResolvePartials : WellFormedPartial(p)}
    /\ rOut = [done |-> FALSE, res |-> NotBuilt]
    /\ inputs \in { [theme |-> th, layout |-> la, requestId |-> r] :
                      th \in StyleInputs, la \in {"classic"}, r \in RequestIdInputs }
    /\ context \in { [sha |-> "abc123", repo |-> AmbientRepo, prNumber |-> p] :
                       p \in {Undef, Num(4)} }
    /\ sourceData = "none"
    /\ fileEntries = <<>>
    /\ hostPlan = <<>>
    /\ threads = [r \in Issues |-> <<>>]
    /\ threads0 = threads
    /\ nextId = 1
    /\ run = 1
    /\ firstRun = <<>>
    /\ FreshRun

\* One call of buildConfigOptions (line 95).
Resolve ==
    /\ ~rOut.done
    /\ rOut' = [done |-> TRUE, res |-> buildConfigOptions(rOpt, inputs, context)]
    /\ UNCHANGED <<rOpt, hostVars, inputVars, runVars, run, firstRun>>

ResolveSpec == InitResolve /\ [][Resolve]_vars

(***************************************************************************)
(* Properties.                                                             *)
(***************************************************************************)
IsMutating(call) == call.op \in {"createComment", "updateComment"}

MutatingCallsBy(i) == {k \in 1..Len(calls) : calls[k].by = i /\ IsMutating(calls[k])}

BotComments(thread) == {k \in 1..Len(thread) : thread[k].login = BotLogin}

\* No other entry of the batch resolves to the resource of pipeline i.
SoleTarget(i) ==
    \A j \in Pipelines :
        j # i =>
            LET other == buildConfigOptions(params[j], inputs, context)
            IN  other.ok =>
                  other.resourceOptions.requestId # cfg[i].resourceOptions.requestId

\* C1: idempotency.  When the action has run twice with the same input, the
\* second run after the first has ended, and an entry that alone targets
\* its resource has published in both runs, and the resource held no bot
\* comment before the first run, then after the second publish the resource
\* holds exactly one bot comment and its body is the body the second run
\* built.
C1_Idempotent ==
    \A i \in Pipelines :
        ( /\ run = 2
          /\ pc[i] = "done"
          /\ firstRun[i]
          /\ SoleTarget(i)
          /\ BotComments(threads0[cfg[i].resourceOptions.requestId]) = {} )
        => LET thread == threads[cfg[i].resourceOptions.requestId]
           IN  /\ Cardinality(BotComments(thread)) = 1
               /\ \A k \in BotComments(thread) : thread[k].body = message[i]

\* A second run on a later commit has replaced the body the first run
\* published on a resource that had no bot comment.
C1_Witness ==
    \E i \in Pipelines :
        /\ run = 2
        /\ pc[i] = "done"
        /\ firstRun[i]
        /\ SoleTarget(i)
        /\ BotComments(threads0[cfg[i].resourceOptions.requestId]) = {}
        /\ context.sha = "def456"
        /\ Len(params) = 2
        /\ \E k \in BotComments(threads[cfg[i].resourceOptions.requestId]) :
             threads[cfg[i].resourceOptions.requestId][k].body = message[i]

\* C2: a pipeline whose listComments call succeeded has issued exactly one
\* mutating call: an updateComment with the located identifier when the
\* locator returned one, a createComment on its requestId when it returned
\* none.
C2_OneMutatingCall ==
    \A i \in Pipelines :
        listed[i].got =>
            /\ Cardinality(MutatingCallsBy(i)) = 1
            /\ \A k \in MutatingCallsBy(i) :
                 IF located[i] # Undef
                 THEN /\ calls[k].op = "updateComment"
                      /\ calls[k].comment_id = located[i].n
                 ELSE /\ calls[k].op = "createComment"
                      /\ calls[k].issue_number = cfg[i].resourceOptions.requestId

\* In one run, one pipeline has updated a located comment and another has
\* created one.
C2_Witness ==
    \E i, j \in Pipelines :
        /\ pc[i] = "done" /\ located[i] # Undef
        /\ \E k \in MutatingCallsBy(i) : calls[k].op = "updateComment"
        /\ pc[j] = "done" /\ located[j] = Undef
        /\ \E k \in MutatingCallsBy(j) : calls[k].op = "createComment"

\* C3: the locator returns the identifier of the first listed comment whose
\* author is github-actions[bot], whatever precedes it, and nothing exactly
\* when the list holds no such comment.
C3_LocatorFirstBot ==
    \A i \in Pipelines :
        listed[i].got =>
            LET cs == listed[i].data
            IN  /\ (\A k \in 1..Len(cs) : cs[k].login # "github-actions[bot]")
                     <=> located[i] = Undef
                /\ \A k \in 1..Len(cs) :
                     ( /\ cs[k].login = "github-actions[bot]"
                       /\ \A m \in 1..(k - 1) : cs[m].login # "github-actions[bot]" )
                     => located[i] = Num(cs[k].id)

\* A listing by alice, the bot and the bot again, in that order, located
\* the second comment.
C3_Witness ==
    \E i \in Pipelines :
        /\ listed[i].got
        /\ Len(listed[i].data) >= 3
        /\ listed[i].data[1].login = "alice"
        /\ listed[i].data[2].login = "github-actions[bot]"
        /\ listed[i].data[3].login = "github-actions[bot]"
        /\ located[i] = Num(listed[i].data[2].id)

\* The resource a comment identifier belongs to.
ThreadHolds(r, id) == \E k \in 1..Len(threads[r]) : threads[r][k].id = id

\* C9: every createComment and updateComment call carries the body built
\* from its own pipeline's theme and layout and the ambient commit hash, and
\* goes to its own pipeline's resource.
C9_OwnBodyOwnResource ==
    \A k \in 1..Len(calls) :
        IsMutating(calls[k]) =>
            LET i == calls[k].by
            IN  /\ calls[k].body =
                     "![Styled Proverbs](<endpoint>?theme="
                        \o cfg[i].styleOptions.theme.v \o "&layout="
                        \o cfg[i].styleOptions.layout.v
                        \o ")\n\nTriggered by commit: " \o context.sha
                /\ calls[k].op = "createComment" =>
                     calls[k].issue_number = cfg[i].resourceOptions.requestId
                /\ calls[k].op = "updateComment" =>
                     /\ cfg[i].resourceOptions.requestId \in Issues
                     /\ ThreadHolds(cfg[i].resourceOptions.requestId,
                                    calls[k].comment_id)

\* Two pipelines of one run have published different bodies to different
\* resources.
C9_Witness ==
    \E k, m \in 1..Len(calls) :
        /\ IsMutating(calls[k]) /\ IsMutating(calls[m])
        /\ calls[k].by # calls[m].by
        /\ calls[k].body # calls[m].body
        /\ cfg[calls[k].by].resourceOptions.requestId
             # cfg[calls[m].by].resourceOptions.requestId
        /\ pc[calls[k].by] = "done" /\ pc[calls[m].by] = "done"

\* C10: every host call goes to the owner and repository of the ambient
\* context, whatever the batch entry holds.
C10_AmbientRepoOnly ==
    \A k \in 1..Len(calls) :
        /\ calls[k].owner = context.repo.owner
        /\ calls[k].repo = context.repo.repo

\* A batch entry that names another repository has listed and published.
C10_Witness ==
    \E i \in Pipelines :
        /\ params[i].hasRepo
        /\ params[i].repoOptions # context.repo
        /\ pc[i] = "done"
        /\ \E k \in 1..Len(calls) : calls[k].by = i /\ calls[k].op = "listComments"
        /\ \E k \in 1..Len(calls) : calls[k].by = i /\ IsMutating(calls[k])

(***************************************************************************)
(* Properties of buildConfigOptions, under ResolveSpec.                    *)
(***************************************************************************)
\* The integers the inputs of the model may denote.
IntRange == (0 - 20)..20

\* Whether a value is the integer k, as a number or as its decimal string.
Denotes(v, k) == v = Num(k) \/ v = Str(TemplateStr(Num(k)))

\* The candidate by the precedence of the tiers: the value of the batch
\* entry when it holds one, else the single-run input when given, else the
\* ambient pull-request number.
Candidate ==
    IF PartialRequestId(rOpt) # Undef THEN PartialRequestId(rOpt)
    ELSE IF inputs.requestId # <<>> THEN Str(inputs.requestId)
    ELSE context.prNumber

\* C4: resolution yields the integer of every candidate that is a positive
\* integer, also as a numeric string, and fails with ValueError for every
\* other candidate: non-integer, negative, zero or absent from all tiers.
C4_RequestIdValidated ==
    rOut.done =>
        IF \E k \in 1..20 : Denotes(Candidate, k)
        THEN /\ rOut.res.ok
             /\ Denotes(Candidate, rOut.res.resourceOptions.requestId)
        ELSE /\ ~rOut.res.ok
             /\ rOut.res.error = "ValueError"

\* C5, as claimed: whatever value the batch entry sets for theme, layout or
\* requestId is the resolved one.  (For requestId the values taken are the
\* positive integers, so that nothing here rests on how an invalid
\* requestId is treated.)
C5_ExplicitAlwaysWins ==
    (rOut.done /\ rOut.res.ok) =>
        /\ PartialTheme(rOpt) # NoText =>
             rOut.res.styleOptions.theme = PartialTheme(rOpt)
        /\ PartialLayout(rOpt) # NoText =>
             rOut.res.styleOptions.layout = PartialLayout(rOpt)
        /\ \A k \in 1..20 :
             Denotes(PartialRequestId(rOpt), k) =>
                 rOut.res.resourceOptions.requestId = k

\* C5, amended: a non-empty theme or layout and a non-zero, non-empty
\* requestId of the batch entry is the resolved one; a theme or layout the
\* entry leaves unset or empty is the single-run input; a requestId the
\* entry leaves unset is the single-run input when that is not empty, and
\* otherwise the ambient pull-request number, without which resolution
\* fails.
C5_TruthyPartialWins ==
    rOut.done =>
        /\ rOut.res.ok =>
             /\ (PartialTheme(rOpt).t = "str" /\ PartialTheme(rOpt).v # "") =>
                  rOut.res.styleOptions.theme = PartialTheme(rOpt)
             /\ (PartialTheme(rOpt) = NoText \/ PartialTheme(rOpt).v = "") =>
                  rOut.res.styleOptions.theme = Text(inputs.theme)
             /\ (PartialLayout(rOpt).t = "str" /\ PartialLayout(rOpt).v # "") =>
                  rOut.res.styleOptions.layout = PartialLayout(rOpt)
             /\ (PartialLayout(rOpt) = NoText \/ PartialLayout(rOpt).v = "") =>
                  rOut.res.styleOptions.layout = Text(inputs.layout)
             /\ \A k \in IntRange :
                  /\ (k # 0 /\ Denotes(PartialRequestId(rOpt), k)) =>
                       rOut.res.resourceOptions.requestId = k
                  /\ ( /\ PartialRequestId(rOpt) = Undef
                       /\ inputs.requestId = TemplateStr(Num(k)) ) =>
                       rOut.res.resourceOptions.requestId = k
                  /\ ( /\ PartialRequestId(rOpt) = Undef
                       /\ inputs.requestId = <<>>
                       /\ context.prNumber = Num(k) ) =>
                       rOut.res.resourceOptions.requestId = k
        /\ ( /\ PartialRequestId(rOpt) = Undef
             /\ inputs.requestId = <<>>
             /\ context.prNumber = Undef ) => ~rOut.res.ok

\* The batch entry's theme and requestId have won over single-run inputs
\* and an ambient pull-request number that were all given.
C5_Witness ==
    /\ rOut.done /\ rOut.res.ok
    /\ PartialTheme(rOpt) = Text("nightOwl") /\ inputs.theme = "light"
    /\ rOut.res.styleOptions.theme = Text("nightOwl")
    /\ PartialRequestId(rOpt) = Num(2) /\ inputs.requestId = <<"3">>
    /\ context.prNumber = Num(4)
    /\ rOut.res.resourceOptions.requestId = 2

(***************************************************************************)
(* The orchestration.                                                      *)
(***************************************************************************)
\* The event loop takes every turn that is ready, and the host answers
\* every call.
Fairness ==
    /\ WF_vars(GetOperationResult)
    /\ WF_vars(Launch)
    /\ WF_vars(AwaitAll)
    /\ \A i \in 1..MaxBatch : WF_vars(ListResponse(i))
    /\ \A i \in 1..MaxBatch : WF_vars(PublishResponse(i))

\* One run of the action, from its start to the end of its process.
NextRun ==
    \/ GetOperationResult
    \/ Launch
    \/ AwaitAll
    \/ \E i \in 1..MaxBatch : ListResponse(i)
    \/ \E i \in 1..MaxBatch : PublishResponse(i)

\* The initial states in which no issue holds a comment yet.
InitFair == Init /\ \A r \in Issues : threads[r] = <<>>

FairSpec == InitFair /\ [][NextRun]_vars /\ Fairness

\* The batch of this invocation, known before it is expanded.
Batch == IF sourceData = "badfile" THEN <<>> ELSE ExpandBatch(sourceData, fileEntries)

\* Entry i resolves, its issue exists and the host answers its calls.
WillSucceed(i) ==
    /\ i \in 1..Len(Batch)
    /\ buildConfigOptions(Batch[i], inputs, context).ok
    /\ buildConfigOptions(Batch[i], inputs, context).resourceOptions.requestId
         \in Issues
    /\ hostPlan[i] = "ok"

\* C6: batch independence.  An entry that resolves and whose host calls
\* succeed completes its publish call, whatever entry before or after it
\* in the batch fails.
C6_BatchIndependence ==
    \A i \in 1..MaxBatch :
        []( ( /\ WillSucceed(i)
              /\ \E j \in 1..Len(Batch) : j # i /\ ~WillSucceed(j) )
            => <>(i \in Pipelines /\ pc[i] = "done") )

\* The second entry has published although the first failed validation.
C6_Witness ==
    /\ Len(params) = 2
    /\ pc[1] = "failed" /\ error[1].kind = "ValueError"
    /\ pc[2] = "done"
    /\ \E k \in MutatingCallsBy(2) : TRUE

C8_FirstFailureOnce ==
    /\ Len(reported) <= 1
    /\ Len(reported) = 1 <=> phase = "failed"
    /\ phase = "succeeded" => failOrder = <<>>
    /\ (phase \notin {"start", "launching"} /\ failOrder # <<>>) => phase = "failed"
    /\ (phase \notin {"start", "launching"} /\ sourceData = "badfile") =>
         reported = <<[kind |-> "ConfigError", by |-> 0]>>
    /\ (phase = "failed" /\ sourceData # "badfile") =>
         /\ failOrder # <<>>
         /\ reported[1].by = failOrder[1]
         /\ reported[1] = error[failOrder[1]]

\* Both pipelines have failed, the second one first, and its error is the
\* one reported.
C8_Witness ==
    /\ Len(params) = 2
    /\ failOrder = <<2, 1>>
    /\ reported = <<error[2]>>
    /\ error[1].by = 1 /\ error[2].by = 2
(***************************************************************************)
(* C11.  A batch file that exists but does not parse.                      *)
(***************************************************************************)
\* C11: when the batch source file exists but fails to parse, the
\* invocation fails before any pipeline starts: no entry is resolved, no
\* listComments, createComment or updateComment call is issued, no thread
\* changes, and the one failure reported to the host is the ConfigError.
C11_ParseFailureBeforePipelines ==
    sourceData = "badfile" =>
        /\ params = <<>> /\ pc = <<>> /\ cfg = <<>>
        /\ calls = <<>>
        /\ threads = threads0
        /\ phase \in {"start", "failed"}
        /\ phase = "failed" =>
              reported = <<[kind |-> "ConfigError", by |-> 0]>>
        /\ phase = "start" => reported = <<>>

C11_Witness ==
    /\ sourceData = "badfile"
    /\ phase = "failed"
    /\ reported = <<[kind |-> "ConfigError", by |-> 0]>>
    /\ calls = <<>>

(***************************************************************************)
(* C12.  Batch expansion.                                                  *)
(***************************************************************************)
ListCallsBy(i) ==
    {k \in 1..Len(calls) : calls[k].by = i /\ calls[k].op = "listComments"}

Launched == phase \in {"waiting", "failed", "succeeded"}

\* C12: when the source is not an existing file with the recognized
\* extension exactly one pipeline is run, on one empty partial config; when
\* the file parses to n entries exactly n pipelines are run, one per entry,
\* each resolved once (one listComments call when it resolves, none when it
\* does not, and no call by anything that is not an entry); for n = 0 the
\* invocation succeeds with no host call and no failure reported.
C12_BatchExpansion ==
    (sourceData # "badfile" /\ phase # "start") =>
        /\ ~isValidFile(sourceData) => params = <<EmptyPartial>>
        /\ isValidFile(sourceData) => params = fileEntries
        /\ Len(pc) = Len(params)
        /\ \A k \in 1..Len(calls) : calls[k].by \in Pipelines
        /\ Launched =>
             \A i \in Pipelines :
                /\ pc[i] # "new"
                /\ Cardinality(ListCallsBy(i)) = IF cfg[i].ok THEN 1 ELSE 0
                /\ cfg[i].ok <=> buildConfigOptions(params[i], inputs, context).ok
        /\ (Launched /\ params = <<>>) =>
             phase = "succeeded" /\ calls = <<>> /\ reported = <<>>

C12_Witness ==
    /\ sourceData = "file"
    /\ Len(fileEntries) = MaxBatch
    /\ Len(params) = MaxBatch
    /\ phase = "succeeded"
    /\ \A i \in Pipelines : pc[i] = "done" /\ Cardinality(ListCallsBy(i)) = 1

C12_EmptyBatchSucceeds ==
    /\ sourceData = "file" /\ fileEntries = <<>>
    /\ phase = "succeeded" /\ calls = <<>>

C12_SingleDefault ==
    /\ sourceData = "none" /\ params = <<EmptyPartial>>
    /\ phase = "succeeded" /\ pc[1] = "done"

(***************************************************************************)
(* C13.  Two entries of one batch on the same requestId.                   *)
(***************************************************************************)
SameTarget(i, j) ==
    /\ i \in Pipelines /\ j \in Pipelines /\ i # j
    /\ cfg[i].ok /\ cfg[j].ok
    /\ cfg[i].resourceOptions.requestId = cfg[j].resourceOptions.requestId

BotFreeListing(i) == listed[i].got /\ BotComments(listed[i].data) = {}

\* C13: two pipelines of one batch that target the same requestId are not
\* serialized.  Whenever both have received a listing with no bot comment,
\* neither had published before the other listed, both issue createComment,
\* and once both have finished the resource holds two bot-authored comments
\* more than either listing, one with each pipeline's body.  The witness is
\* the interleaving in which this happens on a resource that had no bot
\* comment.
C13_UnserializedRace ==
    \A i, j \in 1..MaxBatch :
        (SameTarget(i, j) /\ BotFreeListing(i) /\ BotFreeListing(j)) =>
            LET r == cfg[i].resourceOptions.requestId
            IN  /\ located[i] = Undef /\ located[j] = Undef
                /\ \A k \in MutatingCallsBy(i) \cup MutatingCallsBy(j) :
                      calls[k].op = "createComment" /\ calls[k].issue_number = r
                /\ (pc[i] = "done" /\ pc[j] = "done") =>
                      /\ Len(threads[r]) >= Len(listed[i].data) + 2
                      /\ Cardinality(BotComments(threads[r])) >= 2
                      /\ \E a, b \in BotComments(threads[r]) :
                            /\ a # b
                            /\ threads[r][a].body = message[i]
                            /\ threads[r][b].body = message[j]

C13_Witness ==
    /\ run = 1
    /\ SameTarget(1, 2) /\ BotFreeListing(1) /\ BotFreeListing(2)
    /\ BotComments(threads0[cfg[1].resourceOptions.requestId]) = {}
    /\ pc[1] = "done" /\ pc[2] = "done"
    /\ Cardinality(BotComments(threads[cfg[1].resourceOptions.requestId])) = 2

(***************************************************************************)
(* C14.  Several bot-authored comments on the target.                      *)
(***************************************************************************)
Min(S) == CHOOSE k \in S : \A m \in S : k <= m

FirstListedBotId(i) == listed[i].data[Min(BotComments(listed[i].data))].id

SeveralBotsListed(i) ==
    /\ i \in Pipelines
    /\ listed[i].got
    /\ Cardinality(BotComments(listed[i].data)) >= 2

Publishes(i) ==
    /\ pc[i] = "publishing"
    /\ i \in DOMAIN pc'
    /\ pc'[i] = "done"

\* C14: when the listing a pipeline received holds several bot-authored
\* comments, the step in which its publish call is applied changes the body
\* of the first-listed one to the pipeline's message and nothing else: no
\* thread gains or loses a comment, every comment keeps its identifier and
\* author, and every other comment keeps its body.
C14_TieBreakFrame ==
    [][\A i \in 1..MaxBatch :
          (SeveralBotsListed(i) /\ Publishes(i)) =>
              \A r \in Issues :
                 /\ Len(threads'[r]) = Len(threads[r])
                 /\ \A k \in 1..Len(threads[r]) :
                       /\ threads'[r][k].id = threads[r][k].id
                       /\ threads'[r][k].login = threads[r][k].login
                       /\ IF threads[r][k].id = FirstListedBotId(i)
                          THEN threads'[r][k].body = message[i]
                          ELSE threads'[r][k].body = threads[r][k].body]_vars

C14_Witness ==
    \E i \in Pipelines :
        /\ SeveralBotsListed(i)
        /\ pc[i] = "done"
        /\ LET r == cfg[i].resourceOptions.requestId
               first == Min(BotComments(listed[i].data))
           IN  /\ Len(threads[r]) = Len(listed[i].data)
               /\ threads[r][first].body = message[i]
               /\ listed[i].data[first].body # message[i]
               /\ \A k \in BotComments(threads[r]) \ {first} :
                     threads[r][k] = listed[i].data[k]

(***************************************************************************)
(* C15.  No retry, and the order of the calls of one pipeline.             *)
(***************************************************************************)
\* C15: each pipeline issues at most one listComments call and at most one
\* createComment/updateComment call; the mutating call comes after the
\* pipeline's own listComments call and only once that call has returned a
\* listing; a pipeline whose listComments call the host fails issues no
\* mutating call; a pipeline whose call the host fails ends failed with the
\* host's error, with no further call, and the orchestrator reports failure.
C15_NoRetryStrictOrder ==
    \A i \in 1..MaxBatch :
        i \in Pipelines =>
            /\ Cardinality(ListCallsBy(i)) <= 1
            /\ Cardinality(MutatingCallsBy(i)) <= 1
            /\ \A m \in MutatingCallsBy(i) :
                  /\ listed[i].got
                  /\ \E l \in ListCallsBy(i) : l < m
            /\ ~listed[i].got => MutatingCallsBy(i) = {}
            /\ (hostPlan[i] = "listFail" /\ cfg[i].ok /\ pc[i] # "listing") =>
                  /\ pc[i] = "failed"
                  /\ ~listed[i].got
                  /\ Cardinality(ListCallsBy(i)) = 1
            /\ (hostPlan[i] = "pubFail" /\ listed[i].got
                  /\ pc[i] # "publishing") =>
                  /\ pc[i] = "failed"
                  /\ Cardinality(ListCallsBy(i)) = 1
                  /\ Cardinality(MutatingCallsBy(i)) = 1
            /\ (cfg[i].ok /\ pc[i] = "failed") =>
                  /\ error[i] = [kind |-> "HostApiError", by |-> i]
                  /\ \E k \in 1..Len(failOrder) : failOrder[k] = i
                  /\ phase = "failed"
                  /\ reported # <<>>

C15_Witness ==
    \E i \in Pipelines :
        /\ hostPlan[i] = "pubFail"
        /\ pc[i] = "failed"
        /\ listed[i].got
        /\ Cardinality(ListCallsBy(i)) = 1
        /\ Cardinality(MutatingCallsBy(i)) = 1
        /\ phase = "failed"
        /\ reported = <<[kind |-> "HostApiError", by |-> i]>>

C15_ListFailureNoPublish ==
    \E i \in Pipelines :
        /\ hostPlan[i] = "listFail"
        /\ pc[i] = "failed"
        /\ Cardinality(ListCallsBy(i)) = 1
        /\ MutatingCallsBy(i) = {}

(***************************************************************************)
(* C16.  No call on a descriptor that is not fully resolved.               *)
(***************************************************************************)
CallsBy(i) == {k \in 1..Len(calls) : calls[k].by = i}

\* C16: a batch entry whose resolution fails with ValueError issues no
\* host call at all, and every listComments and createComment call issued
\* carries a requestId that is a strictly positive integer (updateComment
\* carries the comment's identifier instead), as does the descriptor of
\* every pipeline that has issued a call.
C16_CallsOnlyOnResolvedDescriptor ==
    /\ \A i \in 1..MaxBatch :
          (i \in Pipelines /\ pc[i] # "new" /\ ~cfg[i].ok) =>
              /\ error[i].kind = "ValueError"
              /\ CallsBy(i) = {}
    /\ \A k \in 1..Len(calls) :
          /\ calls[k].op # "updateComment" => calls[k].issue_number > 0
          /\ cfg[calls[k].by].ok
          /\ cfg[calls[k].by].resourceOptions.requestId > 0


\* The half of C16 that the code keeps: an entry whose resolution throws
\* has issued no call.
C16_ValueErrorNoCall ==
    \A i \in 1..MaxBatch :
        (i \in Pipelines /\ pc[i] # "new" /\ ~cfg[i].ok) =>
            error[i].kind = "ValueError" /\ CallsBy(i) = {}

(***************************************************************************)
(* C17.  A host call that never returns.                                   *)
(***************************************************************************)
\* How the host treats the calls of a pipeline when some calls may never
\* be answered.
StallPlans == {"ok", "listStall", "pubStall"}

\* The initial states of one run on issues without comments, against a host
\* that answers a pipeline's calls or leaves one of them unanswered for ever.
InitStall ==
    /\ sourceData \in {"none", "file", "badfile"}
    /\ fileEntries \in (IF sourceData = "file" THEN Batches ELSE {<<>>})
    /\ inputs \in RunInputs
    /\ context \in Contexts
    /\ hostPlan \in
         [1..(IF sourceData = "badfile" THEN 0
              ELSE Len(ExpandBatch(sourceData, fileEntries))) -> StallPlans]
    /\ threads = [r \in Issues |-> <<>>]
    /\ threads0 = threads
    /\ nextId = 1
    /\ run = 1
    /\ firstRun = <<>>
    /\ FreshRun
    /\ ResolveIdle

StallSpec == InitStall /\ [][NextRun]_vars /\ Fairness

\* Entry j resolves and one of its host calls is never answered.
WillStall(j) ==
    /\ j \in 1..Len(Batch)
    /\ buildConfigOptions(Batch[j], inputs, context).ok
    /\ \/ hostPlan[j] = "listStall"
       \/ /\ hostPlan[j] = "pubStall"
          /\ buildConfigOptions(Batch[j], inputs, context).resourceOptions.requestId
               \in Issues

InFlight(j) == j \in Pipelines /\ pc[j] \in {"listing", "publishing"}

\* C17: a stalled pipeline blocks only itself.  When a host call of one
\* pipeline never returns, every other pipeline that resolves and whose
\* host calls return successfully still eventually completes its publish
\* call; and the operation is never reported successful in such a run, nor
\* at any time at which some pipeline has a call in flight.
C17_StallBlocksOnlyItself ==
    /\ \A i \in 1..MaxBatch :
          []( ( /\ WillSucceed(i)
                /\ \E j \in 1..Len(Batch) : j # i /\ WillStall(j) )
              => <>(i \in Pipelines /\ pc[i] = "done") )
    /\ []( /\ (\E j \in 1..MaxBatch : WillStall(j)) => phase # "succeeded"
           /\ (\E j \in 1..MaxBatch : InFlight(j)) => phase # "succeeded" )

C17_Witness ==
    \E i, j \in Pipelines :
        /\ i # j
        /\ WillSucceed(i) /\ pc[i] = "done"
        /\ WillStall(j) /\ InFlight(j)
        /\ ~ENABLED ListResponse(j) /\ ~ENABLED PublishResponse(j)
        /\ phase = "waiting"
        /\ reported = <<>>

(***************************************************************************)
(* C18.  Launch ordering.                                                  *)
(***************************************************************************)
FailedValidation(i) ==
    i \in Pipelines /\ pc[i] = "failed" /\ error[i].kind = "ValueError"

\* C18: all entries of a batch are resolved and their listComments calls
\* are issued, in batch order, before any createComment or updateComment
\* call of any pipeline is issued, and no response is handled before the
\* loop is over; an entry that fails validation does not stop the launch of
\* the entries after it.
C18_LaunchOrdering ==
    /\ \A k, m \in 1..Len(calls) :
          /\ (calls[k].op = "listComments" /\ IsMutating(calls[m])) => k < m
          /\ (calls[k].op = "listComments" /\ calls[m].op = "listComments"
                /\ k < m) => calls[k].by < calls[m].by
    /\ ((\E m \in 1..Len(calls) : IsMutating(calls[m])) \/ Launched) =>
          /\ next = Len(params) + 1
          /\ \A i \in Pipelines :
                /\ pc[i] # "new"
                /\ cfg[i].ok <=> buildConfigOptions(params[i], inputs, context).ok
                /\ cfg[i].ok => Cardinality(ListCallsBy(i)) = 1
    /\ phase = "launching" =>
          \A i \in Pipelines :
             /\ ~listed[i].got
             /\ pc[i] \in {"new", "listing", "failed"}
             /\ (i < next /\ ~FailedValidation(i)) => pc[i] = "listing"
             /\ i >= next => pc[i] = "new"

C18_Witness ==
    /\ Len(params) = MaxBatch
    /\ Len(calls) > MaxBatch
    /\ \A k \in 1..MaxBatch : calls[k].op = "listComments" /\ calls[k].by = k
    /\ \A k \in (MaxBatch + 1)..Len(calls) : IsMutating(calls[k])

C18_LaunchAfterValidationFailure ==
    /\ Len(params) = 2
    /\ FailedValidation(1)
    /\ Cardinality(ListCallsBy(2)) = 1
    /\ pc[2] = "done"

(***************************************************************************)
(* C19.  Comments of other authors.                                        *)
(***************************************************************************)
UpdateCalls == {k \in 1..Len(calls) : calls[k].op = "updateComment"}

\* C19: every updateComment call targets an identifier that appeared in
\* the same pipeline's listComments result with author
\* "github-actions[bot]"; every comment there was before the action ran is
\* still in its place with its identifier and author, with its body too
\* unless the bot wrote it; every comment added since is the bot's; and the
\* action issues no call other than listComments, createComment and
\* updateComment.
C19_NonBotCommentsUntouched ==
    /\ \A k \in UpdateCalls :
          LET i == calls[k].by
          IN  /\ listed[i].got
              /\ \E c \in 1..Len(listed[i].data) :
                    /\ listed[i].data[c].id = calls[k].comment_id
                    /\ listed[i].data[c].login = BotLogin
    /\ \A k \in 1..Len(calls) :
          calls[k].op \in {"listComments", "createComment", "updateComment"}
    /\ \A r \in Issues :
          /\ Len(threads[r]) >= Len(threads0[r])
          /\ \A k \in 1..Len(threads[r]) :
                IF k <= Len(threads0[r])
                THEN /\ threads[r][k].id = threads0[r][k].id
                     /\ threads[r][k].login = threads0[r][k].login
                     /\ threads0[r][k].login # BotLogin =>
                           threads[r][k].body = threads0[r][k].body
                ELSE threads[r][k].login = BotLogin

C19_Witness ==
    \E k \in UpdateCalls :
        LET i == calls[k].by
            r == cfg[i].resourceOptions.requestId
        IN  /\ pc[i] = "done"
            /\ Len(threads[r]) >= 2
            /\ threads[r][1].login # BotLogin
            /\ threads[r][1] = threads0[r][1]
            /\ \E c \in BotComments(threads[r]) :
                  /\ threads[r][c].id = calls[k].comment_id
                  /\ threads[r][c].body = message[i]

=============================================================================
